---- MODULE Spec2Model ----
(***************************************************************************)
(* Model of src/simple_prediction/forecast.py: the WeatherAPI client       *)
(* (current weather) and its subclass WeatherForecast (5-entry forecast).  *)
(*                                                                         *)
(* A call is one synchronous request/parse/return, so every public         *)
(* operation is one action.  The network is the environment: each call     *)
(* draws the outcome of its HTTP GET (connection failure, or a response    *)
(* with a status and a body) from a bounded set.                           *)
(*                                                                         *)
(* Representation                                                          *)
(*   text        a sequence of tokens; the characters that matter to URL   *)
(*               syntax (" ", "&", "=", "#", "?", "+", "-", digits) are    *)
(*               always tokens of their own, a run of unreserved           *)
(*               characters ("appid", the endpoint) may be one token       *)
(*   JSON number [type |-> "int" | "float", tenths |-> 10 * value]         *)
(*   JSON object a record; an absent key is absent from its DOMAIN         *)
(*   Python None the record None                                           *)
(*   a return    Ok(v); a raised exception Raise(class name)               *)
(***************************************************************************)
EXTENDS Integers, Sequences, FiniteSets, TLC

VARIABLES
    url,        \* url[c]: the endpoint field of client object c
    api_key,    \* api_key[c]: the credential field of client object c
    tz,         \* UTC offset (seconds) of the process's local time zone
    used,       \* the client objects that have served a call
    last        \* the most recent call: its inputs, what it sent, printed, returned

vars == <<url, api_key, tz, used, last>>

(***************************************************************************)
(* Bounds of the explored input space.                                     *)
(***************************************************************************)
MaxListLen == 6     \* longest upstream forecast `list`

(***************************************************************************)
(* Python values.                                                          *)
(***************************************************************************)
None == [py |-> "None"]

Ok(v) == [ok |-> TRUE, value |-> v]

Raise(e) == [ok |-> FALSE, error |-> e]

JInt(n) == [type |-> "int", tenths |-> 10 * n]

JFloat(t) == [type |-> "float", tenths |-> t]

\* dict.get(key): the value, or None when the key is absent
DictGet(d, k) == IF k \in DOMAIN d THEN d[k] ELSE None

\* d[key]: the value, or KeyError when the key is absent
DictIndex(d, k) == IF k \in DOMAIN d THEN Ok(d[k]) ELSE Raise("KeyError")

\* float(x): TypeError on None, otherwise the same number as a float
PyFloat(v) ==
    IF v = None THEN Raise("TypeError")
    ELSE Ok([type |-> "float", tenths |-> v.tenths])

\* int(x): TypeError on None, otherwise the number truncated toward zero
PyInt(v) ==
    IF v = None THEN Raise("TypeError")
    ELSE IF v.type = "int" THEN Ok(v)
    ELSE IF v.tenths >= 0
         THEN Ok([type |-> "int", tenths |-> 10 * (v.tenths \div 10)])
         ELSE Ok([type |-> "int", tenths |-> -(10 * ((-v.tenths) \div 10))])

(***************************************************************************)
(* Text helpers.                                                           *)
(***************************************************************************)
RECURSIVE MapText(_, _)
MapText(F(_), s) ==
    IF s = <<>> THEN <<>> ELSE <<F(Head(s))>> \o MapText(F, Tail(s))

\* index of the first occurrence of token t in s, 0 when there is none
RECURSIVE FindFrom(_, _, _)
FindFrom(s, t, i) ==
    IF i > Len(s) THEN 0
    ELSE IF s[i] = t THEN i
    ELSE FindFrom(s, t, i + 1)

Find(s, t) == FindFrom(s, t, 1)

(***************************************************************************)
(* The transport library's URL handling (requests / urllib), as far as the *)
(* two request builders use it.                                            *)
(***************************************************************************)
\* urllib.parse.quote_plus of one token: what urlencode applies to the
\* names and values of a params mapping
QuotePlus(t) ==
    CASE t = " " -> "+"
      [] t = "&" -> "%26"
      [] t = "=" -> "%3D"
      [] t = "#" -> "%23"
      [] t = "?" -> "%3F"
      [] t = "+" -> "%2B"
      [] OTHER   -> t

\* requests.utils.requote_uri of one token of a URL given as a string:
\* reserved characters are kept as they are, a space is escaped
RequoteUri(t) == IF t = " " THEN "%20" ELSE t

\* urlencode(params): name=value pairs, quoted, joined by "&"
RECURSIVE UrlEncode(_)
UrlEncode(params) ==
    IF params = <<>> THEN <<>>
    ELSE LET p == Head(params)
             one == MapText(QuotePlus, p[1]) \o <<"=">> \o MapText(QuotePlus, p[2])
         IN  IF Len(params) = 1 THEN one
             ELSE one \o <<"&">> \o UrlEncode(Tail(params))

\* requests.get(url, params): the request put on the wire.  The URL string
\* is split at the first "#" (the fragment is never sent) and at the first
\* "?" (path and query), the query is requoted, and the encoded params are
\* appended to it.
PrepareRequest(u, params) ==
    LET h     == Find(u, "#")
        nofrag == IF h = 0 THEN u ELSE SubSeq(u, 1, h - 1)
        q     == Find(nofrag, "?")
        base  == IF q = 0 THEN nofrag ELSE SubSeq(nofrag, 1, q - 1)
        own   == IF q = 0 THEN <<>>
                 ELSE MapText(RequoteUri, SubSeq(nofrag, q + 1, Len(nofrag)))
        enc   == UrlEncode(params)
        query == IF enc = <<>> THEN own
                 ELSE IF own = <<>> THEN enc
                 ELSE own \o <<"&">> \o enc
    IN  [method |-> "GET", endpoint |-> base, query |-> query]

(***************************************************************************)
(* datetime.fromtimestamp(dt).strftime("%Y-%m-%d") in a zone tz seconds    *)
(* east of UTC (a fixed offset: no daylight-saving change between the      *)
(* timestamps of one run).                                                 *)
(***************************************************************************)
DaysBeforeMonth == <<0, 31, 59, 90, 120, 151, 181, 212, 243, 273, 304, 334>>

\* datetime._ord2ymd: proleptic Gregorian ordinal (1 = 0001-01-01) to
\* <<year, month, day>>
Ord2Ymd(ordinal) ==
    LET n0   == ordinal - 1
        n400 == n0 \div 146097
        r400 == n0 % 146097
        n100 == r400 \div 36524
        r100 == r400 % 36524
        n4   == r100 \div 1461
        r4   == r100 % 1461
        n1   == r4 \div 365
        n    == r4 % 365
        year == n400 * 400 + 1 + n100 * 100 + n4 * 4 + n1
    IN  IF n1 = 4 \/ n100 = 4 THEN <<year - 1, 12, 31>>
        ELSE
          LET leap   == n1 = 3 /\ (n4 # 24 \/ n100 = 3)
              extra(m) == IF m > 2 /\ leap THEN 1 ELSE 0
              m0     == (n + 50) \div 32
              p0     == DaysBeforeMonth[m0] + extra(m0)
              month  == IF p0 > n THEN m0 - 1 ELSE m0
              prec   == DaysBeforeMonth[month] + extra(month)
          IN  <<year, month, n - prec + 1>>

\* datetime.fromtimestamp(dt): the local calendar date of a Unix timestamp
FromTimestamp(dt, offset) == Ord2Ymd(719163 + ((dt + offset) \div 86400))

Digit(n) == <<"0", "1", "2", "3", "4", "5", "6", "7", "8", "9">>[n + 1]

Pad2(n) == <<Digit((n \div 10) % 10), Digit(n % 10)>>

Pad4(n) == Pad2(n \div 100) \o Pad2(n % 100)

\* date.strftime("%Y-%m-%d")
Strftime(ymd) == Pad4(ymd[1]) \o <<"-">> \o Pad2(ymd[2]) \o <<"-">> \o Pad2(ymd[3])

(***************************************************************************)
(* Program constants.                                                      *)
(***************************************************************************)
WeatherUrl == <<"https://api.openweathermap.org/data/2.5/weather">>

ForecastUrl == <<"https://api.openweathermap.org/data/2.5/forecast">>

\* config.API_KEY: an opaque run of unreserved characters
API_KEY == <<"KEY">>

\* data["list"][:5]
ForecastSlice == 5

\* the two client objects of main(): output = WeatherAPI(), forecast = WeatherForecast()
Clients == {"output", "forecast"}

ClassOf(c) == IF c = "forecast" THEN "WeatherForecast" ELSE "WeatherAPI"

\* WeatherAPI.__init__
WeatherAPI_init == [url |-> WeatherUrl, api_key |-> API_KEY]

\* a variant that leaves the inherited url in place
WeatherForecast_init_inherited == WeatherAPI_init

\* WeatherForecast.__init__: super().__init__(), then the url is overwritten
WeatherForecast_init == [WeatherAPI_init EXCEPT !.url = ForecastUrl]

Construct(c) ==
    IF ClassOf(c) = "WeatherForecast" THEN WeatherForecast_init ELSE WeatherAPI_init

(***************************************************************************)
(* The transport: requests.get and Response.json.  net is the outcome the  *)
(* network gives this call's GET.                                          *)
(***************************************************************************)
\* requests.get: raises when no response arrives; any response is returned,
\* whatever its status
RequestsGet(net) ==
    IF net.kind = "down" THEN Raise("ConnectionError") ELSE Ok(net.response)

\* Response.json(): the decoded body, or JSONDecodeError
ResponseJson(response) ==
    IF response.json THEN Ok(response.value) ELSE Raise("JSONDecodeError")

\* response = requests.get(...); return response.json()
GetAndDecode(net) ==
    LET got == RequestsGet(net)
    IN  IF got.ok THEN ResponseJson(got.value) ELSE got

(***************************************************************************)
(* WeatherAPI.  self is the object's fields, [url, api_key].  Every method *)
(* returns what the call did:                                              *)
(*   self     the object's fields when the call ends                       *)
(*   sent     the requests it put on the wire, in order                    *)
(*   printed  the lines it wrote to standard output, in order              *)
(*   ret      Ok(return value) or Raise(exception class)                   *)
(***************************************************************************)
Did(self, sent, printed, ret) ==
    [self |-> self, sent |-> sent, printed |-> printed, ret |-> ret]

\* a retrying variant: a second GET after a failed one
sending_request_retry(self, city, net) ==
    LET params == << <<(<<"appid">>), self.api_key>>,
                     <<(<<"q">>), city>>,
                     <<(<<"units">>), (<<"metric">>)>> >>
        req == PrepareRequest(self.url, params)
        got == GetAndDecode(net)
    IN  Did(self, IF got.ok THEN <<req>> ELSE <<req, req>>, <<>>, got)

\* WeatherAPI._sending_request
sending_request(self, city, net) ==
    LET params == << <<(<<"appid">>), self.api_key>>,
                     <<(<<"q">>), city>>,
                     <<(<<"units">>), (<<"metric">>)>> >>
    IN  Did(self, <<PrepareRequest(self.url, params)>>, <<>>, GetAndDecode(net))

\* WeatherAPI._processing_response
processing_response(data) ==
    LET main == DictGet(data, "main")
        wind == DictGet(data, "wind")
    IN  IF main = None THEN Raise("AttributeError")
        ELSE IF wind = None THEN Raise("AttributeError")
        ELSE Ok(<<DictGet(main, "temp"), DictGet(main, "humidity"),
                  DictGet(wind, "speed")>>)

\* a variant without the conversions: the values as they were decoded
WeatherRecord_uncoerced(t) ==
    IF t[1] = None \/ t[2] = None \/ t[3] = None THEN Raise("TypeError")
    ELSE Ok([temperature |-> t[1], humidity |-> t[2], wind_speed |-> t[3]])

\* the dict literal of _get_weather: float(temp_c), int(humidity), float(wind_mps)
WeatherRecord(t) ==
    LET temp == PyFloat(t[1])
        hum  == PyInt(t[2])
        wind == PyFloat(t[3])
    IN  IF ~temp.ok THEN temp
        ELSE IF ~hum.ok THEN hum
        ELSE IF ~wind.ok THEN wind
        ELSE Ok([temperature |-> temp.value, humidity |-> hum.value,
                 wind_speed |-> wind.value])

\* WeatherAPI._get_weather
get_weather(self, city, net) ==
    LET req == sending_request(self, city, net)
    IN  IF ~req.ret.ok THEN req
        ELSE LET t == processing_response(req.ret.value)
             IN  Did(req.self, req.sent, <<>>,
                     IF t.ok THEN WeatherRecord(t.value) ELSE t)

\* the line show_weather prints: the fixed Russian sentence with these four
\* values in it
WeatherLine(city, weather_data) ==
    [city |-> city,
     temperature |-> DictGet(weather_data, "temperature"),
     humidity |-> DictGet(weather_data, "humidity"),
     wind_speed |-> DictGet(weather_data, "wind_speed")]

\* a variant that reports a failed fetch on standard output
show_weather_reporting(self, city, net) ==
    LET w == get_weather(self, city, net)
    IN  IF ~w.ret.ok THEN Did(w.self, w.sent, <<[city |-> city, failed |-> w.ret.error]>>, w.ret)
        ELSE Did(w.self, w.sent, <<WeatherLine(city, w.ret.value)>>, Ok(None))

\* WeatherAPI.show_weather
show_weather(self, city, net) ==
    LET w == get_weather(self, city, net)
    IN  IF ~w.ret.ok THEN w
        ELSE Did(w.self, w.sent, <<WeatherLine(city, w.ret.value)>>, Ok(None))

(***************************************************************************)
(* WeatherForecast.                                                        *)
(***************************************************************************)
\* a variant that keeps the built URL in the object: self.url = f"..."
send_request_storing(self, city, net) ==
    LET u == self.url \o <<"?", "q", "=">> \o city
                      \o <<"&", "appid", "=">> \o self.api_key
                      \o <<"&", "units", "=", "metric">>
    IN  Did([self EXCEPT !.url = u], <<PrepareRequest(u, <<>>)>>, <<>>,
            GetAndDecode(net))

\* WeatherForecast._send_request: the parameters are written into the URL
\* string, which requests.get then parses
send_request(self, city, net) ==
    LET u == self.url \o <<"?", "q", "=">> \o city
                      \o <<"&", "appid", "=">> \o self.api_key
                      \o <<"&", "units", "=", "metric">>
    IN  Did(self, <<PrepareRequest(u, <<>>)>>, <<>>, GetAndDecode(net))

\* a variant without the slice
SliceFirst_whole(s, k) == s

\* s[:k]
SliceFirst(s, k) == SubSeq(s, 1, IF Len(s) < k THEN Len(s) ELSE k)

\* the body of the for loop of get_forecast, for one entry
ForecastRecord(forecast) ==
    LET dt   == DictIndex(forecast, "dt")
        main == DictIndex(forecast, "main")
        wind == DictIndex(forecast, "wind")
    IN  IF ~dt.ok THEN dt
        ELSE IF ~main.ok THEN main
        ELSE LET temp == DictIndex(main.value, "temp")
                 hum  == DictIndex(main.value, "humidity")
             IN  IF ~temp.ok THEN temp
                 ELSE IF ~hum.ok THEN hum
                 ELSE IF ~wind.ok THEN wind
                 ELSE LET speed == DictIndex(wind.value, "speed")
                      IN  IF ~speed.ok THEN speed
                          ELSE Ok([date |-> Strftime(FromTimestamp(dt.value, tz)),
                                   temp |-> temp.value,
                                   humidity |-> hum.value,
                                   wind_speed |-> speed.value])

\* a variant that stops at a malformed entry and returns what it has
RECURSIVE ForecastLoop_partial(_, _)
ForecastLoop_partial(forecasts, result) ==
    IF forecasts = <<>> THEN Ok(result)
    ELSE LET r == ForecastRecord(Head(forecasts))
         IN  IF ~r.ok THEN Ok(result)
             ELSE ForecastLoop_partial(Tail(forecasts), Append(result, r.value))

\* the for loop of get_forecast: result grows by one record per entry; an
\* exception leaves the loop and the function
RECURSIVE ForecastLoop(_, _)
ForecastLoop(forecasts, result) ==
    IF forecasts = <<>> THEN Ok(result)
    ELSE LET r == ForecastRecord(Head(forecasts))
         IN  IF ~r.ok THEN r
             ELSE ForecastLoop(Tail(forecasts), Append(result, r.value))

\* WeatherForecast.get_forecast
get_forecast(self, city, net) ==
    LET req == send_request(self, city, net)
    IN  IF ~req.ret.ok THEN req
        ELSE LET list == DictIndex(req.ret.value, "list")
             IN  Did(req.self, req.sent, <<>>,
                     IF ~list.ok THEN list
                     ELSE ForecastLoop(SliceFirst(list.value, ForecastSlice), <<>>))

(***************************************************************************)
(* The environment: city names, upstream payloads, network outcomes.       *)
(***************************************************************************)
\* the city of main(), as one token (its letters need no URL syntax)
DefaultCity == <<"Odessa">>

\* city names with and without characters of URL syntax in them
Cities ==
    {DefaultCity,
     <<"New", " ", "York">>,
     <<"a", "=", "b">>,
     <<"a", "&", "b">>,
     <<"a", "#", "b">>,
     <<"&">>,
     <<"a", "&", "q", "=", "b">>,
     <<"a", "+", "b">>}

\* r without key k
Without(r, k) == [x \in DOMAIN r \ {k} |-> r[x]]

Temps == {JInt(21), JFloat(-35)}

Humidities == {JInt(60), JFloat(607)}

Speeds == {JFloat(32), JInt(4)}

FullMain == {[temp |-> t, humidity |-> h, pressure |-> JInt(1013)] :
                t \in Temps, h \in Humidities}

MainObjects ==
    FullMain \cup {Without(m, "temp") : m \in FullMain}
             \cup {Without(m, "humidity") : m \in FullMain}
             \cup {Without(Without(m, "temp"), "humidity") : m \in FullMain}

FullWind == {[speed |-> s, deg |-> JInt(270)] : s \in Speeds}

WindObjects == FullWind \cup {Without(w, "speed") : w \in FullWind}

FullCurrent == {[cod |-> "200", main |-> m, wind |-> w] :
                   m \in MainObjects, w \in WindObjects}

\* current-weather payloads, with any of the expected keys absent
CurrentBodies ==
    FullCurrent \cup {Without(b, "main") : b \in FullCurrent}
                \cup {Without(b, "wind") : b \in FullCurrent}

\* the payload the service sends with an error status
ErrorBody == [cod |-> "404", message |-> "city not found"]

\* timestamps next to day, month, year and leap-day boundaries (UTC):
\* 2024-02-29 00:00:00, 2024-02-29 23:59:59, 2025-01-01 00:00:00,
\* 2000-02-29 12:00:00, 2023-03-01 00:00:00, 2023-12-31 23:59:59,
\* 2023-11-14 22:13:20, 1970-01-01 00:00:00
DtPool == <<1709164800, 1709251199, 1735689600, 951825600,
            1677628800, 1704067199, 1700000000, 0>>

Pick(pool, k) == pool[((k - 1) % Len(pool)) + 1]

TempPool == <<JFloat(215), JInt(21), JFloat(-35)>>

HumidityPool == <<JInt(60), JInt(75)>>

SpeedPool == <<JFloat(32), JInt(4), JFloat(57)>>

\* the k-th well-formed forecast entry
GoodEntry(k) ==
    [dt   |-> Pick(DtPool, k),
     main |-> [temp |-> Pick(TempPool, k), humidity |-> Pick(HumidityPool, k),
               pressure |-> JInt(1013)],
     wind |-> [speed |-> Pick(SpeedPool, k), deg |-> JInt(270)]]

MissingFields == {"dt", "main", "temp", "humidity", "wind", "speed"}

\* the k-th entry with one expected field absent
BadEntry(k, field) ==
    LET e == GoodEntry(k)
    IN  CASE field \in {"dt", "main", "wind"} -> Without(e, field)
          [] field \in {"temp", "humidity"} ->
                [e EXCEPT !.main = Without(e.main, field)]
          [] OTHER -> [e EXCEPT !.wind = Without(e.wind, field)]

\* a list of n entries starting at the shift-th pool entry; entry number bad
\* (if any) lacks field
ForecastList(n, shift, bad, field) ==
    [i \in 1..n |-> IF i = bad THEN BadEntry(i + shift, field)
                    ELSE GoodEntry(i + shift)]

\* well-formed lists of every length in two orders, and every list with one
\* malformed entry
ForecastLists ==
    {ForecastList(n, shift, 0, "dt") : n \in 0..MaxListLen, shift \in {0, 3}}
    \cup {ForecastList(n, 0, bad, field) :
            n \in 1..MaxListLen, bad \in 1..MaxListLen, field \in MissingFields}

ForecastBodies == {[cod |-> "200", list |-> l] : l \in ForecastLists}

GoodCurrent ==
    [cod |-> "200",
     main |-> [temp |-> JFloat(215), humidity |-> JInt(60), pressure |-> JInt(1013)],
     wind |-> [speed |-> JFloat(32), deg |-> JInt(270)]]

GoodForecast == [cod |-> "200", list |-> ForecastList(2, 0, 0, "dt")]

Statuses == {200, 404}

Down == [kind |-> "down"]

JsonResponse(status, value) ==
    [kind |-> "response",
     response |-> [status |-> status, json |-> TRUE, value |-> value]]

TextResponse(status) ==
    [kind |-> "response", response |-> [status |-> status, json |-> FALSE]]

\* the outcomes tried with every operation: no response, and each status
\* with a body that is not JSON, an error payload and a payload of each layout
CommonNets ==
    {Down} \cup {TextResponse(s) : s \in Statuses}
           \cup {JsonResponse(s, b) :
                    s \in Statuses, b \in {ErrorBody, GoodCurrent, GoodForecast}}

\* the calls explored for the operations that parse the current-weather
\* layout: the common outcomes and every current-weather payload for the
\* city of main(), and two outcomes for every city name
CurrentInputs ==
    {<<DefaultCity, net>> : net \in CommonNets}
    \cup {<<DefaultCity, JsonResponse(200, b)>> : b \in CurrentBodies}
    \cup {<<city, net>> : city \in Cities,
                          net \in {Down, JsonResponse(200, GoodCurrent)}}

\* show_weather adds a print to _get_weather: it is tried with the complete
\* payloads and with two incomplete ones
ShowInputs ==
    {<<DefaultCity, net>> : net \in CommonNets}
    \cup {<<DefaultCity, JsonResponse(200, b)>> :
            b \in {c \in FullCurrent : {"temp", "humidity"} \subseteq DOMAIN c.main
                                       /\ "speed" \in DOMAIN c.wind}
                  \cup {Without(GoodCurrent, "main"), Without(GoodCurrent, "wind")}}
    \cup {<<city, net>> : city \in Cities,
                          net \in {Down, JsonResponse(200, GoodCurrent)}}

\* the same for get_forecast, with every forecast payload
ForecastInputs ==
    {<<DefaultCity, net>> : net \in CommonNets}
    \cup {<<DefaultCity, JsonResponse(200, b)>> : b \in ForecastBodies}
    \cup {<<city, net>> : city \in Cities,
                          net \in {Down, JsonResponse(200, GoodForecast)}}

\* the local time zones explored: UTC+2 (Odessa) and UTC-5
TzOffsets == {7200, -18000}

(***************************************************************************)
(* The state machine.                                                      *)
(***************************************************************************)
NoCall == [op |-> "none"]

Init ==
    /\ url = [c \in Clients |-> Construct(c).url]
    /\ api_key = [c \in Clients |-> Construct(c).api_key]
    /\ tz \in TzOffsets
    /\ used = {}
    /\ last = NoCall

\* the fields of client object c
Object(c) == [url |-> url[c], api_key |-> api_key[c]]

\* the call is recorded and the object keeps the fields the method left
Return(op, c, city, net, did) ==
    /\ last' = [op |-> op, self |-> c, city |-> city, net |-> net,
                reused |-> c \in used,
                sent |-> did.sent, printed |-> did.printed, ret |-> did.ret]
    /\ used' = used \cup {c}
    /\ url' = [url EXCEPT ![c] = did.self.url]
    /\ api_key' = [api_key EXCEPT ![c] = did.self.api_key]
    /\ UNCHANGED tz

\* a caller calls c._get_weather(city): both classes have the method
CallGetWeather ==
    \E c \in Clients, in \in CurrentInputs :
        /\ ClassOf(c) \in {"WeatherAPI", "WeatherForecast"}
        /\ Return("get_weather", c, in[1], in[2],
                  get_weather(Object(c), in[1], in[2]))

\* a caller calls c.show_weather(city): both classes have the method
CallShowWeather ==
    \E c \in Clients, in \in ShowInputs :
        /\ ClassOf(c) \in {"WeatherAPI", "WeatherForecast"}
        /\ Return("show_weather", c, in[1], in[2],
                  show_weather(Object(c), in[1], in[2]))

\* a caller calls c.get_forecast(city): only a WeatherForecast has the method
CallGetForecast ==
    \E c \in Clients, in \in ForecastInputs :
        /\ ClassOf(c) = "WeatherForecast"
        /\ Return("get_forecast", c, in[1], in[2],
                  get_forecast(Object(c), in[1], in[2]))

Next == CallGetWeather \/ CallShowWeather \/ CallGetForecast

Spec == Init /\ [][Next]_vars

(***************************************************************************)
(* Vocabulary of the properties.                                           *)
(***************************************************************************)
IsCall == last.op # "none"

\* the call got a response whose body decoded to a JSON object
GotJson == IsCall /\ last.net.kind = "response" /\ last.net.response.json

Payload == last.net.response.value

Failed == IsCall /\ ~last.ret.ok

\* the spec's two error kinds, as Python exception classes: a LookupError is
\* a KeyError or an IndexError; the transport's own errors are those of
\* requests.exceptions
IsLookupError(e) == e \in {"KeyError", "IndexError"}

IsTransportError(e) == e \in {"ConnectionError", "JSONDecodeError", "HTTPError"}

\* a current-weather payload with all three expected fields
HasCurrentFields(b) ==
    /\ "main" \in DOMAIN b /\ "wind" \in DOMAIN b
    /\ {"temp", "humidity"} \subseteq DOMAIN b.main
    /\ "speed" \in DOMAIN b.wind

\* a forecast entry with all four expected fields
HasEntryFields(e) ==
    /\ {"dt", "main", "wind"} \subseteq DOMAIN e
    /\ {"temp", "humidity"} \subseteq DOMAIN e.main
    /\ "speed" \in DOMAIN e.wind

Min(a, b) == IF a < b THEN a ELSE b

DigitValue(c) == CHOOSE n \in 0..9 : Digit(n) = c

IsDigit(c) == \E n \in 0..9 : Digit(n) = c

DaysInMonthTable == <<31, 28, 31, 30, 31, 30, 31, 31, 30, 31, 30, 31>>

IsLeapYear(y) == y % 4 = 0 /\ (y % 100 # 0 \/ y % 400 = 0)

DaysInMonth(y, m) ==
    IF m = 2 /\ IsLeapYear(y) THEN 29 ELSE DaysInMonthTable[m]

RECURSIVE DaysBeforeMonthOf(_, _)
DaysBeforeMonthOf(y, m) ==
    IF m = 1 THEN 0 ELSE DaysBeforeMonthOf(y, m - 1) + DaysInMonth(y, m - 1)

\* days from 1970-01-01 to the calendar date y-m-d
DaysSinceEpoch(y, m, d) ==
    LET py == y - 1
    IN  365 * py + (py \div 4) - (py \div 100) + (py \div 400)
        + DaysBeforeMonthOf(y, m) + d - 719163

\* text is "YYYY-MM-DD" and names the local calendar day that holds dt
IsDateOf(text, dt) ==
    /\ Len(text) = 10
    /\ text[5] = "-" /\ text[8] = "-"
    /\ \A i \in {1, 2, 3, 4, 6, 7, 9, 10} : IsDigit(text[i])
    /\ LET y == 1000 * DigitValue(text[1]) + 100 * DigitValue(text[2])
                + 10 * DigitValue(text[3]) + DigitValue(text[4])
           m == 10 * DigitValue(text[6]) + DigitValue(text[7])
           d == 10 * DigitValue(text[9]) + DigitValue(text[10])
       IN  /\ m \in 1..12
           /\ d \in 1..DaysInMonth(y, m)
           /\ 86400 * DaysSinceEpoch(y, m, d) <= dt + tz
           /\ dt + tz < 86400 * DaysSinceEpoch(y, m, d) + 86400

\* get_forecast got a `list` whose entries are all well formed
WellFormedForecastCall ==
    /\ GotJson /\ last.op = "get_forecast"
    /\ "list" \in DOMAIN Payload
    /\ \A i \in 1..Len(Payload.list) : HasEntryFields(Payload.list[i])

(***************************************************************************)
(* C1: for a forecast response whose `list` has n well-formed entries,     *)
(* get_forecast returns exactly min(5, n) records, and the i-th record is  *)
(* built from the i-th upstream entry: date is the "YYYY-MM-DD" day of its *)
(* dt, temp, humidity and wind_speed are its main.temp, main.humidity and  *)
(* wind.speed; no padding and no error when n < 5.                         *)
(***************************************************************************)
C1_FirstFiveInOrder ==
    WellFormedForecastCall =>
        /\ last.ret.ok
        /\ Len(last.ret.value) = Min(5, Len(Payload.list))
        /\ \A i \in 1..Len(last.ret.value) :
              LET r == last.ret.value[i]
                  e == Payload.list[i]
              IN  /\ DOMAIN r = {"date", "temp", "humidity", "wind_speed"}
                  /\ IsDateOf(r.date, e.dt)
                  /\ r.temp = e.main.temp
                  /\ r.humidity = e.main.humidity
                  /\ r.wind_speed = e.wind.speed

\* a list longer than 5 was cut to 5, with a date on the other side of a
\* day boundary than its UTC day
C1_Witness ==
    /\ WellFormedForecastCall
    /\ Len(Payload.list) > 5
    /\ last.ret.ok /\ Len(last.ret.value) = 5
    /\ last.ret.value[2].date # Strftime(FromTimestamp(Payload.list[2].dt, 0))

\* no `main` at top level, nor in any entry of a (non-empty) `list`
MissingMainEntirely(b) ==
    /\ "main" \notin DOMAIN b
    /\ "list" \in DOMAIN b =>
          /\ Len(b.list) > 0
          /\ \A i \in 1..Len(b.list) : "main" \notin DOMAIN b.list[i]

(***************************************************************************)
(* C2: a response missing `main` entirely makes both fetch operations      *)
(* (_get_weather and get_forecast) fail with a LookupError-class condition *)
(* (a missing-key error).  Read in the claim's favour: for get_forecast    *)
(* the `list`, when present, has at least one entry, and no entry has a    *)
(* `main`.                                                                 *)
(***************************************************************************)
C2_MissingMainIsLookupError ==
    (GotJson /\ last.op \in {"get_weather", "get_forecast"}
             /\ MissingMainEntirely(Payload))
        => (Failed /\ IsLookupError(last.ret.error))

(***************************************************************************)
(* C3: when the network call fails (no response arrives), the call fails   *)
(* with the transport's error, which reaches the caller, and show_weather  *)
(* writes nothing to standard output.                                      *)
(***************************************************************************)
C3_TransportFailurePropagates ==
    (IsCall /\ last.net.kind = "down")
        => /\ Failed
           /\ last.ret.error = "ConnectionError"
           /\ IsTransportError(last.ret.error)
           /\ last.printed = <<>>

C3_Witness ==
    /\ IsCall /\ last.op = "show_weather" /\ last.net.kind = "down"
    /\ Failed /\ last.printed = <<>>

(***************************************************************************)
(* C4: a response with a non-2xx status makes the fetch fail with a        *)
(* TransportError-class condition, whatever its body; it is never reported *)
(* as a LookupError or returned as a record.                               *)
(***************************************************************************)
C4_BadStatusIsTransportError ==
    (IsCall /\ last.op \in {"get_weather", "get_forecast"}
            /\ last.net.kind = "response"
            /\ last.net.response.status \notin 200..299)
        => (Failed /\ IsTransportError(last.ret.error))

\* _get_weather got a payload with all three expected fields
WellFormedCurrentCall ==
    GotJson /\ last.op = "get_weather" /\ HasCurrentFields(Payload)

\* whole is the integer part of number
IsIntegerPartOf(whole, number) ==
    /\ whole % 10 = 0
    /\ IF number >= 0 THEN whole <= number /\ number < whole + 10
       ELSE number <= whole /\ whole - 10 < number

(***************************************************************************)
(* C5: for a well-formed current-weather response _get_weather returns a   *)
(* record with exactly the fields temperature, humidity and wind_speed:    *)
(* temperature and wind_speed are main.temp and wind.speed as floats,      *)
(* humidity is main.humidity as an integer (the same number when upstream  *)
(* sends an integer, its integer part otherwise).                          *)
(***************************************************************************)
C5_SnapshotCoerced ==
    WellFormedCurrentCall =>
        /\ last.ret.ok
        /\ DOMAIN last.ret.value = {"temperature", "humidity", "wind_speed"}
        /\ last.ret.value.temperature.type = "float"
        /\ last.ret.value.temperature.tenths = Payload.main.temp.tenths
        /\ last.ret.value.wind_speed.type = "float"
        /\ last.ret.value.wind_speed.tenths = Payload.wind.speed.tenths
        /\ last.ret.value.humidity.type = "int"
        /\ IsIntegerPartOf(last.ret.value.humidity.tenths,
                           Payload.main.humidity.tenths)
        /\ Payload.main.humidity.type = "int"
              => last.ret.value.humidity = Payload.main.humidity

\* upstream sent an integer temperature, returned as a float
C5_Witness ==
    /\ WellFormedCurrentCall
    /\ Payload.main.temp.type = "int" /\ Payload.main.humidity.type = "int"
    /\ last.ret.ok /\ last.ret.value.temperature.type = "float"

\* what the last call does as the first call on a newly constructed client
OnFreshClient ==
    LET fresh == Construct(last.self)
    IN  CASE last.op = "get_weather" -> get_weather(fresh, last.city, last.net)
          [] last.op = "show_weather" -> show_weather(fresh, last.city, last.net)
          [] OTHER -> get_forecast(fresh, last.city, last.net)

(***************************************************************************)
(* C6: no call depends on the calls before it: after any sequence of calls *)
(* on a client, what a call sends, prints and returns is what the same     *)
(* call (same operation, city and network outcome) sends, prints and       *)
(* returns as the first call on a newly constructed client of that class.  *)
(***************************************************************************)
C6_SameAsOnFreshClient ==
    IsCall =>
        /\ last.ret = OnFreshClient.ret
        /\ last.printed = OnFreshClient.printed
        /\ last.sent = OnFreshClient.sent

\* a successful forecast fetch on a client that had served a call before
C6_Witness ==
    /\ IsCall /\ last.reused
    /\ last.op = "get_forecast" /\ last.ret.ok /\ Len(last.ret.value) > 0

\* get_forecast got a `list` with a malformed entry among its first 5
MalformedForecastCall ==
    /\ GotJson /\ last.op = "get_forecast"
    /\ "list" \in DOMAIN Payload
    /\ \E i \in 1..Min(5, Len(Payload.list)) : ~HasEntryFields(Payload.list[i])

\* a current-weather operation got a payload lacking an expected field
MalformedCurrentCall ==
    /\ GotJson /\ last.op \in {"get_weather", "show_weather"}
    /\ ~HasCurrentFields(Payload)

(***************************************************************************)
(* C7: no partial results: if an expected field is absent from the         *)
(* current-weather response, or from one of the first 5 entries of the     *)
(* forecast `list`, the fetch fails and returns no record; get_forecast    *)
(* never returns the records of the entries before a malformed one.        *)
(***************************************************************************)
C7_NoPartialResults ==
    (MalformedForecastCall \/ MalformedCurrentCall)
        => (Failed /\ last.printed = <<>>)

\* the third entry is malformed, the two before it are not
C7_Witness ==
    /\ MalformedForecastCall
    /\ Len(Payload.list) >= 3
    /\ HasEntryFields(Payload.list[1]) /\ HasEntryFields(Payload.list[2])
    /\ ~HasEntryFields(Payload.list[3])
    /\ Failed

(***************************************************************************)
(* C8: every call (_get_weather, show_weather, get_forecast) issues        *)
(* exactly one HTTP GET, also when it fails: no retry, and no answer       *)
(* without a request.                                                      *)
(***************************************************************************)
C8_ExactlyOneRequest ==
    IsCall => (Len(last.sent) = 1 /\ last.sent[1].method = "GET")

C8_Witness ==
    /\ IsCall /\ last.net.kind = "down" /\ Failed
    /\ Len(last.sent) = 1

\* s.split(t): the pieces of s between the occurrences of t
RECURSIVE Split(_, _)
Split(s, t) ==
    LET i == Find(s, t)
    IN  IF i = 0 THEN <<s>>
        ELSE <<SubSeq(s, 1, i - 1)>> \o Split(SubSeq(s, i + 1, Len(s)), t)

\* percent-decoding of one token of a received query string
UnquotePlus(t) ==
    CASE t = "+"   -> " "
      [] t = "%20" -> " "
      [] t = "%26" -> "&"
      [] t = "%3D" -> "="
      [] t = "%23" -> "#"
      [] t = "%3F" -> "?"
      [] t = "%2B" -> "+"
      [] OTHER     -> t

\* the parameters a server reads from a query string: the pieces between
\* "&", each split at its first "=", percent-decoded
RECURSIVE ReceivedFrom(_)
ReceivedFrom(pieces) ==
    IF pieces = <<>> THEN <<>>
    ELSE LET p == Head(pieces)
             i == Find(p, "=")
             pair == IF i = 0 THEN <<MapText(UnquotePlus, p), <<>> >>
                     ELSE <<MapText(UnquotePlus, SubSeq(p, 1, i - 1)),
                            MapText(UnquotePlus, SubSeq(p, i + 1, Len(p)))>>
         IN  IF p = <<>> THEN ReceivedFrom(Tail(pieces))
             ELSE <<pair>> \o ReceivedFrom(Tail(pieces))

ReceivedParams(query) == ReceivedFrom(Split(query, "&"))

Range(f) == {f[i] : i \in DOMAIN f}

ExpectedParams(c, city) ==
    {<< <<"q">>, city>>, << <<"appid">>, api_key[c]>>, << <<"units">>, <<"metric">> >>}

(***************************************************************************)
(* C9: for every city string the request get_forecast sends carries the    *)
(* query parameters the parent's encoding carries: q equal to the city,    *)
(* appid equal to the credential, units=metric, and no other parameter.    *)
(***************************************************************************)
C9_SameParametersAsParent ==
    (IsCall /\ last.op = "get_forecast") =>
        LET got    == ReceivedParams(last.sent[1].query)
            parent == ReceivedParams(
                          sending_request(Object(last.self), last.city,
                                          last.net).sent[1].query)
        IN  /\ Len(got) = 3
            /\ Range(got) = ExpectedParams(last.self, last.city)
            /\ Range(got) = Range(parent)

\* the endpoint the class of c is constructed with
EndpointOf(c) ==
    IF ClassOf(c) = "WeatherForecast" THEN ForecastUrl ELSE WeatherUrl

(***************************************************************************)
(* C10: url and api_key are fixed at construction and no operation changes *)
(* them: after any sequence of calls a WeatherAPI requests the weather     *)
(* endpoint and a WeatherForecast the forecast endpoint, also in the       *)
(* show_weather and _get_weather it inherits, which parse the response     *)
(* with the current-weather layout.                                        *)
(***************************************************************************)
C10_EndpointFixed ==
    /\ \A c \in Clients : url[c] = EndpointOf(c) /\ api_key[c] = API_KEY
    /\ IsCall =>
          /\ \A i \in 1..Len(last.sent) : last.sent[i].endpoint = EndpointOf(last.self)
          /\ (GotJson /\ last.op \in {"get_weather", "show_weather"})
                => (last.ret.ok <=> HasCurrentFields(Payload))

\* a reused WeatherForecast ran the inherited show_weather on a forecast
\* payload: it asked the forecast endpoint and found no top-level `main`
C10_Witness ==
    /\ GotJson /\ last.reused
    /\ last.self = "forecast" /\ last.op = "show_weather"
    /\ "list" \in DOMAIN Payload
    /\ last.sent[1].endpoint = ForecastUrl
    /\ Failed /\ last.ret.error = "AttributeError"

====
